---- MODULE Spec2Model ----
(***************************************************************************)
(* The node-side migration agent of spot_agent_production_v2_final.py:     *)
(* SpotOptimizerAgent with its four periodic threads, the migration engine *)
(* execute_switch, the controller (CentralServerClient's peer) and the     *)
(* cloud (AWSResourceManager's peer).                                      *)
(*                                                                         *)
(* Every thread is a position pc[t] plus its local variables; an action is *)
(* the code between two points at which another thread can observe or      *)
(* change the shared fields.  Calls to the controller, the cloud and the   *)
(* metadata service succeed or fail nondeterministically.                  *)
(***************************************************************************)
EXTENDS Integers, Sequences, FiniteSets, TLC

\* ------------------------------------------------------------------ bounds
MaxLaunches == 2      \* run_instances calls the cloud accepts in one run
MaxCmds == 2          \* commands the controller issues in one run
MaxFlagChanges == 1   \* times the operator changes the flags at the controller
MaxClock == 2         \* last value of the wall clock

\* ------------------------------------------------------------------ values
None == "None"          \* an absent string
NoPool == <<>>          \* an absent pool id
NoTime == 0 - 1         \* an absent timestamp
NoOptions == {}         \* no InstanceMarketOptions in a run request
NoDetails ==            \* get_instance_details returned None
    [instance_id |-> 0, instance_type |-> "", lifecycle |-> "", az |-> "",
     tags |-> <<>>]
Unsent == <<>>          \* no request of a kind was sent so far
Zones == {"ap-south-1a", "ap-south-1b"}
InstanceType == "m5.large"
Price == 1                                  \* some positive price
TargetTokens == {"spot", "pool", "ondemand"} \* target_mode on the wire
Callers == {"cmd", "ext"}                   \* threads that enter execute_switch
Threads == {"main", "hb", "spot", "od", "cmd", "ext"}
FlagSets == [enabled : BOOLEAN, auto_switch_enabled : BOOLEAN,
             auto_terminate_enabled : BOOLEAN]

VARIABLES
    config,                 \* AgentConfig: identity, agent_id and control flags
    current_mode,           \* SpotOptimizerAgent.current_mode
    current_pool_id,        \* SpotOptimizerAgent.current_pool_id
    switching_in_progress,  \* SpotOptimizerAgent.switching_in_progress
    switch_lock,            \* SpotOptimizerAgent.switch_lock: its holder, or None
    stop_event,             \* SpotOptimizerAgent.stop_event
    last_ondemand_price,    \* SpotOptimizerAgent.last_ondemand_price
    pc,                     \* position of every thread
    hb,                     \* locals of _heartbeat_loop
    sp,                     \* locals of _spot_price_monitor
    cm,                     \* locals of _command_processor_loop
    sw,                     \* locals of execute_switch, per caller
    ec2,                    \* the cloud: instances and images
    ctl,                    \* the controller: flags and pending commands
    now,                    \* the wall clock (datetime.utcnow)
    obs                     \* history: the instance ids replaced so far

vars == <<config, current_mode, current_pool_id, switching_in_progress,
          switch_lock, stop_event, last_ondemand_price, pc, hb, sp, cm, sw,
          ec2, ctl, now, obs>>

agentVars == <<config, current_mode, current_pool_id, switching_in_progress,
               switch_lock, stop_event, last_ondemand_price>>

\* ------------------------------------------------------- AgentConfig (38-57)
\* region is os.getenv('AWS_REGION', 'ap-south-1') (42): the variable may be
\* unset, or set to anything, the empty string included.
Regions == {"ap-south-1", ""}

AgentConfig ==
    [region |-> "ap-south-1",
     instance_id |-> 0, instance_type |-> "", availability_zone |-> "",
     ami_id |-> 0, agent_id |-> 0, hostname |-> "",
     enabled |-> TRUE, auto_switch_enabled |-> TRUE,
     auto_terminate_enabled |-> TRUE, is_ec2 |-> TRUE]

\* A tag.  Values are numbers: an instance id for the parent tag, the clock
\* for the creation time, 1 for 'true', 0 for text the agent never looks at.
Tag(key, value) == [Key |-> key, Value |-> value]

\* The tags the operator gave the instance the agent is started on.
InitialTags == <<Tag("Name", 0)>>

\* An instance as the cloud holds it.  Instance ids are 1, 2, ... ("i-1", ...);
\* 0 stands for the empty string.  Image ids likewise.
Instance(life, az, image, parent, tags) ==
    [lifecycle |-> life, az |-> az, image |-> image, parent |-> parent,
     tags |-> tags]

\* ------------------------------------------------ AWSResourceManager (134-)
\* get_instance_details: the fields of the describe answer the agent uses.
get_instance_details(instance_id) ==
    IF instance_id \in DOMAIN ec2.instances
    THEN [instance_id |-> instance_id,
          instance_type |-> InstanceType,
          lifecycle |-> ec2.instances[instance_id].lifecycle,
          az |-> ec2.instances[instance_id].az,
          tags |-> ec2.instances[instance_id].tags]
    ELSE NoDetails

\* pool id: f"{instance_type}_{az.replace('-', '')}".  The string is kept as
\* the pair it is built from; the zone loses its hyphens.
Hyphenless(az) ==
    CASE az = "ap-south-1a" -> "apsouth1a"
      [] az = "ap-south-1b" -> "apsouth1b"
      [] OTHER -> az

PoolId(instance_type, az) == <<instance_type, Hyphenless(az)>>

\* get_current_mode, given the answer of its describe call (None: it failed).
get_current_mode(details) ==
    IF details = NoDetails THEN <<"unknown", NoPool>>
    ELSE IF details.lifecycle = "spot"
         THEN <<"spot", PoolId(details.instance_type, details.az)>>
         ELSE <<"ondemand", NoPool>>

\* launch_instance: the market options of the run request.
MarketOptions(target_mode) ==
    IF target_mode = "spot"
    THEN {<<"MarketType", "spot">>, <<"SpotInstanceType", "persistent">>,
          <<"InstanceInterruptionBehavior", "stop">>}
    ELSE NoOptions

\* get_spot_prices: one sample per zone of the answer.
get_spot_prices(instance_type, zones) ==
    {[az |-> z, pool_id |-> PoolId(instance_type, z), price |-> Price] : z \in zones}

\* ------------------------------------------------------------ thread locals
HbIdle == [cfg |-> [enabled |-> TRUE, auto_switch_enabled |-> TRUE,
                    auto_terminate_enabled |-> TRUE]]
SpIdle == [described |-> 0, mode |-> None, pool |-> NoPool,
           retired |-> {}]
CmIdle == [commands |-> <<>>, idx |-> 0, acks |-> <<>>, examined_id |-> 0,
           done |-> FALSE, begin_disabled |-> FALSE, after_abort |-> FALSE]
SwIdle ==
    [target_mode |-> None, trigger |-> None,
     old_instance_id |-> 0, old_mode |-> None, old_pool_id |-> NoPool,
     instance_details |-> NoDetails, ami_id |-> 0, launch_params |-> Unsent,
     new_instance_id |-> 0, new_details |-> NoDetails,
     new_mode |-> None, new_pool_id |-> NoPool,
     timing_start |-> NoTime, timing_ready |-> NoTime,
     timing_switched |-> NoTime, timing_terminated |-> NoTime,
     auto_terminate |-> TRUE, terminate_sent |-> 0, reported |-> FALSE,
     report_success |-> FALSE,
     aborted_at |-> None, result |-> FALSE]

\* History: the ids replaced by a migration that returned success.
ObsInit ==
    [retired |-> {}]

\* ------------------------------------------------------------------- Init
\* The state after SpotOptimizerAgent.__init__ (530-542): nothing fetched yet.
\* The node runs on instance 1; the operator has set some flags at the
\* controller.
Init ==
    /\ \E region \in Regions : config = [AgentConfig EXCEPT !.region = region]
    /\ current_mode = None
    /\ current_pool_id = NoPool
    /\ switching_in_progress = FALSE
    /\ switch_lock = None
    /\ stop_event = FALSE
    /\ last_ondemand_price = 0
    /\ pc = [t \in Threads |-> IF t = "main" THEN "init_ec2" ELSE "unstarted"]
    /\ hb = HbIdle
    /\ sp = SpIdle
    /\ cm = CmIdle
    /\ sw = [c \in Callers |-> SwIdle]
    /\ \E life \in {"spot", "normal"} :
          ec2 = [instances |-> <<Instance(life, "ap-south-1a", 1, 0, InitialTags)>>,
                 images |-> {1}, terminated |-> {}, launches |-> 0]
    /\ \E f \in FlagSets :
          ctl = [flags |-> f, pending |-> <<>>, issued |-> 0, changes |-> 0,
                 registered |-> FALSE]
    /\ now = 0
    /\ obs = ObsInit

\* ------------------------------------------------------------------ helpers
Goto(t, where) == pc' = [pc EXCEPT ![t] = where]

\* ------------------------------------------- Agent Supervisor: run, initialize
\* initialize, 550-556: check_ec2_environment; not on EC2 is sys.exit(1), which
\* run's finally turns into shutdown().
InitCheckEc2 ==
    /\ pc["main"] = "init_ec2"
    /\ \E is_ec2 \in BOOLEAN :
          /\ config' = [config EXCEPT !.is_ec2 = is_ec2]
          /\ Goto("main", IF is_ec2 THEN "init_metadata" ELSE "shutdown")
    /\ UNCHANGED <<current_mode, current_pool_id, switching_in_progress,
                   switch_lock, stop_event, last_ondemand_price, hb, sp, cm, sw,
                   ec2, ctl, now, obs>>

\* The paths of the metadata service the agent asks for (107-124).
MetadataPaths ==
    {"instance-id", "instance-type", "placement/availability-zone", "ami-id",
     "hostname"}

\* socket.gethostname() (124): the host's own name.
OsHostname == "ip-10-0-0-1"

\* A get_hostname without the fallback of 123-124.
get_hostname_metadata_only(answered) ==
    IF answered THEN OsHostname ELSE ""

\* get_hostname (119-124): the metadata service's answer, which is the name
\* the host was given, else the host's own name.
get_hostname(answered) ==
    IF answered THEN OsHostname ELSE OsHostname

\* initialize, 560-571: the identity from the metadata service, field by
\* field; answered are the paths the service answered (_fetch_metadata is
\* None otherwise, here 0 or "").  A missing id, type, zone or image is
\* sys.exit(1); the hostname is not looked at.
InitMetadata ==
    /\ pc["main"] = "init_metadata"
    /\ \E answered \in SUBSET MetadataPaths :
          /\ config' = [config EXCEPT
                !.instance_id = IF "instance-id" \in answered THEN 1 ELSE 0,
                !.instance_type =
                    IF "instance-type" \in answered THEN InstanceType ELSE "",
                !.availability_zone =
                    IF "placement/availability-zone" \in answered
                    THEN ec2.instances[1].az ELSE "",
                !.ami_id = IF "ami-id" \in answered
                           THEN ec2.instances[1].image ELSE 0,
                !.hostname = get_hostname("hostname" \in answered)]
          /\ Goto("main",
                  IF MetadataPaths \ {"hostname"} \subseteq answered
                  THEN "init_resources" ELSE "shutdown")
    /\ UNCHANGED <<current_mode, current_pool_id, switching_in_progress,
                   switch_lock, stop_event, last_ondemand_price, hb, sp, cm, sw,
                   ec2, ctl, now, obs>>

\* initialize, 579-590: the resource manager and the initial mode; boto3 may
\* raise (sys.exit(1)), and does for an empty region name, for which no
\* endpoint can be built (137); a failed describe only yields
\* ('unknown', None).
InitResourceManager ==
    /\ pc["main"] = "init_resources"
    /\ \E boto_ok \in IF config.region = "" THEN {FALSE} ELSE BOOLEAN,
          describe_ok \in BOOLEAN :
          IF boto_ok
          THEN LET details == IF describe_ok
                              THEN get_instance_details(config.instance_id)
                              ELSE NoDetails
                   mode == get_current_mode(details)
               IN /\ current_mode' = mode[1]
                  /\ current_pool_id' = mode[2]
                  /\ Goto("main", "init_register")
          ELSE /\ UNCHANGED <<current_mode, current_pool_id>>
               /\ Goto("main", "shutdown")
    /\ UNCHANGED <<config, switching_in_progress, switch_lock, stop_event,
                   last_ondemand_price, hb, sp, cm, sw, ec2, ctl, now, obs>>

\* register_agent, 379-416, called at 592-598: agent_id and the flags of the
\* answer; a failure is sys.exit(1).
InitRegister ==
    /\ pc["main"] = "init_register"
    /\ \E ok \in BOOLEAN :
          IF ok
          THEN /\ config' = [config EXCEPT
                     !.agent_id = 1,
                     !.enabled = ctl.flags.enabled,
                     !.auto_switch_enabled = ctl.flags.auto_switch_enabled,
                     !.auto_terminate_enabled = ctl.flags.auto_terminate_enabled]
               /\ ctl' = [ctl EXCEPT !.registered = TRUE]
               /\ Goto("main", "start_threads")
          ELSE /\ UNCHANGED <<config, ctl>>
               /\ Goto("main", "shutdown")
    /\ UNCHANGED <<current_mode, current_pool_id, switching_in_progress,
                   switch_lock, stop_event, last_ondemand_price, hb, sp, cm, sw,
                   ec2, now, obs>>

\* start_monitoring_threads, 608-621, then run's wait loop, 963-964.
StartThreads ==
    /\ pc["main"] = "start_threads"
    /\ pc' = [t \in Threads |->
                 CASE t = "main" -> "running"
                   [] t = "ext" -> "ext_idle"
                   [] OTHER -> "idle"]
    /\ UNCHANGED <<agentVars, hb, sp, cm, sw, ec2, ctl, now, obs>>

\* run, 966-971: the shutdown signal (KeyboardInterrupt) ends the wait loop.
Interrupt ==
    /\ pc["main"] = "running"
    /\ Goto("main", "shutdown")
    /\ UNCHANGED <<agentVars, hb, sp, cm, sw, ec2, ctl, now, obs>>

\* send_heartbeat (418-436): the request a heartbeat sent in the current
\* state carries.
Heartbeat(status, monitored) ==
    [status |-> status, monitored_instances |-> monitored,
     agent_id |-> config.agent_id]

\* shutdown, 973-980: the best-effort offline heartbeat,
\* Heartbeat("offline", {}) of the state it is sent in.
ShutdownHeartbeat ==
    /\ pc["main"] = "shutdown"
    /\ Goto("main", "shutdown_set")
    /\ UNCHANGED <<agentVars, hb, sp, cm, sw, ec2, ctl, now, obs>>

\* shutdown, 982: stop_event.set().
ShutdownSet ==
    /\ pc["main"] = "shutdown_set"
    /\ stop_event' = TRUE
    /\ Goto("main", "shutdown_join")
    /\ UNCHANGED <<config, current_mode, current_pool_id, switching_in_progress,
                   switch_lock, last_ondemand_price, hb, sp, cm, sw, ec2, ctl,
                   now, obs>>

\* shutdown, 984-987: every join returns when its thread has ended or after
\* 5 s; then run and main return and the process ends, daemon threads with it.
ShutdownJoin ==
    /\ pc["main"] = "shutdown_join"
    /\ pc' = [t \in Threads |-> IF t = "main" THEN "stopped"
                                 ELSE IF pc[t] \in {"unstarted", "exited"} THEN pc[t]
                                 ELSE "killed"]
    /\ UNCHANGED <<agentVars, hb, sp, cm, sw, ec2, ctl, now, obs>>

\* ------------------------------------------------ _heartbeat_loop (623-642)
\* 625: the loop ends once the gate is set.
HbExit ==
    /\ pc["hb"] = "idle"
    /\ stop_event
    /\ Goto("hb", "exited")
    /\ UNCHANGED <<agentVars, hb, sp, cm, sw, ec2, ctl, now, obs>>

\* The keys of the control flags in the answer of get_config.
FlagNames == {"enabled", "auto_switch_enabled", "auto_terminate_enabled"}

\* The answers of get_config by the keys they hold: all three flags, one of
\* two complementary parts, or none.
ReturnedKeySets ==
    {FlagNames, {"enabled"}, {"auto_switch_enabled", "auto_terminate_enabled"},
     {}}

\* dict.get(key, default) on an answer that holds the keys of returned.
ConfigGet(answer, returned, key, default) ==
    IF key \in returned THEN answer[key] ELSE default

\* 627-637: send_heartbeat, Heartbeat("online", {config.instance_id}) of the
\* state it is sent in; when it succeeded, get_config (459-471), which is
\* None when the call fails and may hold any of the flags; an answer without
\* a key is falsy (634).  Neither call touches the agent's fields, and the
\* flags are written by this thread alone, so the defaults of 635-637 are the
\* values read here: cfg is what the three assignments will store.  With any
\* failure the tick ends at the wait of 642.
HbSend ==
    /\ pc["hb"] = "idle"
    /\ ~stop_event
    /\ \/ \* send_heartbeat or get_config failed
          /\ UNCHANGED hb
          /\ Goto("hb", "idle")
       \/ \E returned \in ReturnedKeySets :
             IF returned # {}
             THEN /\ hb' = [hb EXCEPT !.cfg =
                            [enabled |->
                                ConfigGet(ctl.flags, returned, "enabled",
                                          config.enabled),
                             auto_switch_enabled |->
                                ConfigGet(ctl.flags, returned,
                                          "auto_switch_enabled",
                                          config.auto_switch_enabled),
                             auto_terminate_enabled |->
                                ConfigGet(ctl.flags, returned,
                                          "auto_terminate_enabled",
                                          config.auto_terminate_enabled)]]
                  /\ Goto("hb", "set_enabled")
             ELSE /\ UNCHANGED hb
                  /\ Goto("hb", "idle")
    /\ UNCHANGED <<agentVars, sp, cm, sw, ec2, ctl, now, obs>>

\* A heartbeat that drops the controller's enabled flag.
HbSetEnabledDropped ==
    /\ pc["hb"] = "set_enabled"
    /\ Goto("hb", "set_auto")
    /\ UNCHANGED <<agentVars, hb, sp, cm, sw, ec2, ctl, now, obs>>

\* 635.
HbSetEnabled ==
    /\ pc["hb"] = "set_enabled"
    /\ config' = [config EXCEPT !.enabled = hb.cfg.enabled]
    /\ Goto("hb", "set_auto")
    /\ UNCHANGED <<current_mode, current_pool_id, switching_in_progress,
                   switch_lock, stop_event, last_ondemand_price, hb, sp, cm, sw,
                   ec2, ctl, now, obs>>

\* A heartbeat whose refresh also drops the cached on-demand price.
HbSetAutoClearsPrice ==
    /\ pc["hb"] = "set_auto"
    /\ config' = [config EXCEPT
          !.auto_switch_enabled = hb.cfg.auto_switch_enabled,
          !.auto_terminate_enabled = hb.cfg.auto_terminate_enabled]
    /\ last_ondemand_price' = 0
    /\ hb' = HbIdle
    /\ Goto("hb", "idle")
    /\ UNCHANGED <<current_mode, current_pool_id, switching_in_progress,
                   switch_lock, stop_event, sp, cm, sw, ec2, ctl, now, obs>>

\* A heartbeat that leaves auto_terminate_enabled as it is.
HbSetAutoSwitchOnly ==
    /\ pc["hb"] = "set_auto"
    /\ config' = [config EXCEPT
          !.auto_switch_enabled = hb.cfg.auto_switch_enabled]
    /\ hb' = HbIdle
    /\ Goto("hb", "idle")
    /\ UNCHANGED <<current_mode, current_pool_id, switching_in_progress,
                   switch_lock, stop_event, last_ondemand_price, sp, cm, sw,
                   ec2, ctl, now, obs>>

\* 636-637, then the wait of 642.
HbSetAuto ==
    /\ pc["hb"] = "set_auto"
    /\ config' = [config EXCEPT
          !.auto_switch_enabled = hb.cfg.auto_switch_enabled,
          !.auto_terminate_enabled = hb.cfg.auto_terminate_enabled]
    /\ hb' = HbIdle
    /\ Goto("hb", "idle")
    /\ UNCHANGED <<current_mode, current_pool_id, switching_in_progress,
                   switch_lock, stop_event, last_ondemand_price, sp, cm, sw,
                   ec2, ctl, now, obs>>

\* ---------------------------------------------- execute_switch (751-938)
\* The engine runs in its caller's thread: c is that thread.
Running(c) ==
    pc[c] \in {"sw_describe", "sw_snapshot", "sw_launch", "sw_wait_running",
               "sw_verify", "sw_prices", "sw_terminate", "sw_terminate_ret",
               "sw_report", "sw_done_id", "sw_done_zone", "sw_done_mode",
               "sw_done_pool", "sw_finally"}

\* An abort that leaves the function without its finally clause.
AbortPastFinally(c, step) ==
    /\ sw' = [sw EXCEPT ![c].aborted_at = step, ![c].result = FALSE]
    /\ Goto(c, "sw_return")

\* An abort that ends the thread the engine runs in.
AbortEndsTask(c, step) ==
    /\ sw' = [sw EXCEPT ![c].aborted_at = step, ![c].result = FALSE]
    /\ Goto(c, "exited")

\* An abort that retires the predecessor on its way out.
AbortAndTerminate(c, step) ==
    /\ sw' = [sw EXCEPT ![c].aborted_at = step, ![c].result = FALSE,
                         ![c].terminate_sent = sw[c].old_instance_id]
    /\ Goto(c, "sw_finally")

\* A step failed (return False at 774, 786, 818, 829, or the except of 933):
\* the finally clause is next.
Abort(c, step) ==
    /\ sw' = [sw EXCEPT ![c].aborted_at = step, ![c].result = FALSE]
    /\ Goto(c, "sw_finally")

\* 753: with self.switch_lock.
LockFree == switch_lock = None

SwAcquire(c) ==
    /\ pc[c] = "sw_lock"
    /\ LockFree
    /\ switch_lock' = c
    /\ Goto(c, "sw_check")
    /\ UNCHANGED <<config, current_mode, current_pool_id, switching_in_progress,
                   stop_event, last_ondemand_price, hb, sp, cm, sw, ec2, ctl,
                   now, obs>>

\* An engine without the check of 754: every caller is let in.
NeverInProgress == FALSE

\* 754: if self.switching_in_progress.
AlreadyInProgress == switching_in_progress

\* 754-756: turned away; the lock is released, the flag is left alone.
SwCheck(c) ==
    /\ pc[c] = "sw_check"
    /\ IF AlreadyInProgress
       THEN /\ sw' = [sw EXCEPT ![c].aborted_at = "REJECTED", ![c].result = FALSE]
            /\ switch_lock' = IF switch_lock = c THEN None ELSE switch_lock
            /\ Goto(c, "sw_return")
       ELSE /\ UNCHANGED <<sw, switch_lock>>
            /\ Goto(c, "sw_set")
    /\ UNCHANGED <<config, current_mode, current_pool_id, switching_in_progress,
                   stop_event, last_ondemand_price, hb, sp, cm, ec2, ctl, now,
                   obs>>

\* 758: the flag is set and the lock released.
SwSet(c) ==
    /\ pc[c] = "sw_set"
    /\ switching_in_progress' = TRUE
    /\ switch_lock' = IF switch_lock = c THEN None ELSE switch_lock
    /\ Goto(c, "sw_describe")
    /\ UNCHANGED <<config, current_mode, current_pool_id, stop_event,
                   last_ondemand_price, hb, sp, cm, sw, ec2, ctl, now, obs>>

\* 765-776, DESCRIBE: the identity as it is now, and the predecessor's details.
SwDescribe(c) ==
    /\ pc[c] = "sw_describe"
    /\ \E ok \in BOOLEAN :
          LET details == IF ok THEN get_instance_details(config.instance_id)
                         ELSE NoDetails
              seen == [sw EXCEPT ![c].old_instance_id = config.instance_id,
                                 ![c].old_mode = current_mode,
                                 ![c].old_pool_id = current_pool_id]
          IN IF details = NoDetails
             THEN /\ sw' = [seen EXCEPT ![c].aborted_at = "DESCRIBE",
                                        ![c].result = FALSE]
                  /\ Goto(c, "sw_finally")
             ELSE /\ sw' = [seen EXCEPT ![c].instance_details = details]
                  /\ Goto(c, "sw_snapshot")
    /\ UNCHANGED <<agentVars, hb, sp, cm, ec2, ctl, now, obs>>

\* The id of an image made of instance_id.  Instance 1 runs image 1 and an
\* instance is launched from an image of its parent, so the id differs
\* from the image instance_id itself runs.
ImageOf(instance_id) == instance_id + 1

\* 778-788, SNAPSHOT: create_ami_from_instance (184-215).  The image id is
\* returned only when create_image answered and the image became available
\* within the waiter's budget.
create_ami_from_instance(instance_id, available) ==
    IF available THEN ImageOf(instance_id) ELSE 0

\* create_image (191-196) either fails or registers an image; a registered
\* image stays in the account whether or not the waiter of 202-207 sees it
\* become available.
SwSnapshot(c) ==
    /\ pc[c] = "sw_snapshot"
    /\ \E created \in BOOLEAN, available \in BOOLEAN :
          LET ami_id == create_ami_from_instance(sw[c].old_instance_id,
                                                 created /\ available)
          IN /\ ec2' = IF created
                       THEN [ec2 EXCEPT !.images =
                                @ \cup {ImageOf(sw[c].old_instance_id)}]
                       ELSE ec2
             /\ IF ami_id # 0
                THEN /\ sw' = [sw EXCEPT ![c].ami_id = ami_id]
                     /\ Goto(c, "sw_launch")
                ELSE Abort(c, "SNAPSHOT")
    /\ UNCHANGED <<agentVars, hb, sp, cm, ctl, now, obs>>

\* 790-814, PLAN and LAUNCH: the launch configuration and the run request of
\* launch_instance (217-273).  The subnet is the predecessor's (797, 255-258):
\* a subnet lies in one zone, so SubnetId is modelled by that zone.
\* 230-234: the tags launch_instance appends to the predecessor's.
OperatorTags(old_instance_id, created) ==
    <<Tag("spot-optimizer-managed", 1),
      Tag("spot-optimizer-parent", old_instance_id),
      Tag("spot-optimizer-created", created)>>

\* 225-235: the predecessor's tags (799), then the operator tags.
TagSpecifications(tags, old_instance_id, created) ==
    tags \o OperatorTags(old_instance_id, created)

LaunchParams(c) ==
    [ImageId |-> sw[c].ami_id,
     InstanceType |-> sw[c].instance_details.instance_type,
     SubnetId |-> sw[c].instance_details.az,
     Parent |-> sw[c].old_instance_id,
     Tags |-> TagSpecifications(sw[c].instance_details.tags,
                                sw[c].old_instance_id, now),
     InstanceMarketOptions |-> MarketOptions(sw[c].target_mode)]

\* The keys of a tag list, and whether each occurs once.
TagKeys(tags) == {tags[i].Key : i \in DOMAIN tags}
DistinctKeys(tags) == Cardinality(TagKeys(tags)) = Len(tags)

\* The instance the cloud starts for a run request: in the subnet's zone, as
\* a spot instance iff the request carries market options.
Launched(params) ==
    Instance(IF params.InstanceMarketOptions = NoOptions THEN "normal" ELSE "spot",
             params.SubnetId, params.ImageId, params.Parent, params.Tags)

\* run_instances refuses a request that names a tag key twice.
Acceptable(params) == DistinctKeys(params.Tags)

SwLaunch(c) ==
    /\ pc[c] = "sw_launch"
    /\ \E accepted \in BOOLEAN :
          IF accepted /\ ec2.launches < MaxLaunches /\ Acceptable(LaunchParams(c))
          THEN /\ ec2' = [ec2 EXCEPT
                     !.launches = @ + 1,
                     !.instances = Append(@, Launched(LaunchParams(c)))]
               /\ sw' = [sw EXCEPT ![c].timing_start = now,
                                   ![c].launch_params = <<LaunchParams(c)>>]
               /\ Goto(c, "sw_wait_running")
          ELSE /\ sw' = [sw EXCEPT ![c].timing_start = now,
                                   ![c].launch_params = <<LaunchParams(c)>>,
                                   ![c].aborted_at = "LAUNCH",
                                   ![c].result = FALSE]
               /\ Goto(c, "sw_finally")
               /\ UNCHANGED ec2
    /\ UNCHANGED <<agentVars, hb, sp, cm, ctl, now, obs>>

\* A LAUNCH that adopts the successor's id as soon as it runs, before VERIFY
\* has described it.
SwWaitRunningAdopts(c) ==
    /\ pc[c] = "sw_wait_running"
    /\ \E running \in BOOLEAN :
          IF running
          THEN /\ sw' = [sw EXCEPT ![c].new_instance_id = Len(ec2.instances),
                                   ![c].timing_ready = now]
               /\ config' = [config EXCEPT !.instance_id = Len(ec2.instances)]
               /\ Goto(c, "sw_verify")
          ELSE /\ Abort(c, "LAUNCH")
               /\ UNCHANGED config
    /\ UNCHANGED <<current_mode, current_pool_id, switching_in_progress,
                   switch_lock, stop_event, last_ondemand_price, hb, sp, cm,
                   ec2, ctl, now, obs>>

\* 277-283 and 816-821: the waiter for "running", then timing_ready.
SwWaitRunning(c) ==
    /\ pc[c] = "sw_wait_running"
    /\ \E running \in BOOLEAN :
          IF running
          THEN /\ sw' = [sw EXCEPT ![c].new_instance_id = Len(ec2.instances),
                                   ![c].timing_ready = now]
               /\ Goto(c, "sw_verify")
          ELSE Abort(c, "LAUNCH")
    /\ UNCHANGED <<agentVars, hb, sp, cm, ec2, ctl, now, obs>>

\* A VERIFY that cleans up after itself: when the successor cannot be
\* described it is terminated and the image is deregistered.
SwVerifyCompensating(c) ==
    /\ pc[c] = "sw_verify"
    /\ \E ok \in BOOLEAN, mode_ok \in BOOLEAN :
          IF ok
          THEN LET details == get_instance_details(sw[c].new_instance_id)
                   mode == get_current_mode(IF mode_ok THEN details
                                            ELSE NoDetails)
               IN /\ sw' = [sw EXCEPT ![c].new_details = details,
                                      ![c].new_mode = mode[1],
                                      ![c].new_pool_id = mode[2]]
                  /\ Goto(c, "sw_prices")
                  /\ UNCHANGED ec2
          ELSE /\ ec2' = [ec2 EXCEPT
                             !.terminated = @ \cup {sw[c].new_instance_id},
                             !.images = @ \ {sw[c].ami_id}]
               /\ Abort(c, "VERIFY")
    /\ UNCHANGED <<agentVars, hb, sp, cm, ctl, now, obs>>

\* A VERIFY that aborts when the class it observes is not the requested one.
SwVerifyStrict(c) ==
    /\ pc[c] = "sw_verify"
    /\ \E ok \in BOOLEAN, mode_ok \in BOOLEAN :
          IF ok
          THEN LET details == get_instance_details(sw[c].new_instance_id)
                   mode == get_current_mode(IF mode_ok THEN details
                                            ELSE NoDetails)
               IN /\ sw' = [sw EXCEPT
                             ![c].new_details = details,
                             ![c].new_mode = mode[1],
                             ![c].new_pool_id = mode[2],
                             ![c].aborted_at =
                                 IF mode[1] = sw[c].target_mode THEN @
                                 ELSE "VERIFY"]
                  /\ Goto(c, IF mode[1] = sw[c].target_mode THEN "sw_prices"
                             ELSE "sw_finally")
          ELSE Abort(c, "VERIFY")
    /\ UNCHANGED <<agentVars, hb, sp, cm, ec2, ctl, now, obs>>

\* 823-832, VERIFY: the successor is described twice, once for its details
\* and once inside get_current_mode.
SwVerify(c) ==
    /\ pc[c] = "sw_verify"
    /\ \E ok \in BOOLEAN, mode_ok \in BOOLEAN :
          IF ok
          THEN LET details == get_instance_details(sw[c].new_instance_id)
                   mode == get_current_mode(IF mode_ok THEN details
                                            ELSE NoDetails)
               IN /\ sw' = [sw EXCEPT ![c].new_details = details,
                                      ![c].new_mode = mode[1],
                                      ![c].new_pool_id = mode[2]]
                  /\ Goto(c, "sw_prices")
          ELSE Abort(c, "VERIFY")
    /\ UNCHANGED <<agentVars, hb, sp, cm, ec2, ctl, now, obs>>

\* _get_ondemand_price (940-952): the cached price, or a fetch that may fail;
\* 0 is no price.
FetchOndemand(fetched) ==
    IF last_ondemand_price # 0 THEN last_ondemand_price
    ELSE IF fetched THEN Price ELSE 0

\* 834-852, PRICE_CAPTURE: the prices of the record are looked up; of the
\* agent's state only the cached on-demand price can change.
SwPrices(c) ==
    /\ pc[c] = "sw_prices"
    /\ \E fetched \in BOOLEAN :
          last_ondemand_price' = FetchOndemand(fetched)
    /\ Goto(c, "sw_terminate")
    /\ UNCHANGED <<config, current_mode, current_pool_id, switching_in_progress,
                   switch_lock, stop_event, hb, sp, cm, sw, ec2, ctl, now, obs>>

\* An engine that retires the predecessor whatever the flag says.
TerminateAlways(auto_terminate_enabled) == TRUE

\* 857: if self.config.auto_terminate_enabled.
ShouldTerminate(auto_terminate_enabled) == auto_terminate_enabled

\* 854-859 and 866-868, TERMINATE_OLD: timing_switched, then the terminate
\* request if the flag says so (terminate_sent: the id it names, 0 for no
\* request).
SwTerminate(c) ==
    /\ pc[c] = "sw_terminate"
    /\ IF ShouldTerminate(config.auto_terminate_enabled)
       THEN /\ sw' = [sw EXCEPT ![c].timing_switched = now,
                                ![c].auto_terminate = config.auto_terminate_enabled,
                                ![c].terminate_sent = sw[c].old_instance_id]
            /\ Goto(c, "sw_terminate_ret")
       ELSE /\ sw' = [sw EXCEPT ![c].timing_switched = now,
                                ![c].auto_terminate = config.auto_terminate_enabled,
                                ![c].timing_terminated = NoTime]
            /\ Goto(c, "sw_report")
    /\ UNCHANGED <<agentVars, hb, sp, cm, ec2, ctl, now, obs>>

\* An engine that stamps the termination with the time of the launch.
TerminatedAtLaunch(terminate_success, clock) ==
    IF terminate_success THEN 0 ELSE NoTime

\* An engine for which a failed terminate request is a failed migration.
SwTerminateRetStrict(c) ==
    /\ pc[c] = "sw_terminate_ret"
    /\ \E terminate_success \in BOOLEAN :
          IF terminate_success
          THEN /\ sw' = [sw EXCEPT ![c].timing_terminated = now]
               /\ ec2' = [ec2 EXCEPT !.terminated = @ \cup {sw[c].terminate_sent}]
               /\ Goto(c, "sw_report")
          ELSE /\ sw' = [sw EXCEPT ![c].result = FALSE]
               /\ Goto(c, "sw_finally")
               /\ UNCHANGED ec2
    /\ UNCHANGED <<agentVars, hb, sp, cm, ctl, now, obs>>

\* 862-865: timing_terminated, when terminate_instance (289-298) returned True.
TimingTerminated(terminate_success, clock) ==
    IF terminate_success THEN clock ELSE NoTime

SwTerminateRet(c) ==
    /\ pc[c] = "sw_terminate_ret"
    /\ \E terminate_success \in BOOLEAN :
          /\ sw' = [sw EXCEPT ![c].timing_terminated =
                                  TimingTerminated(terminate_success, now)]
          /\ ec2' = IF terminate_success
                    THEN [ec2 EXCEPT !.terminated = @ \cup {sw[c].terminate_sent}]
                    ELSE ec2
    /\ Goto(c, "sw_report")
    /\ UNCHANGED <<agentVars, hb, sp, cm, ctl, now, obs>>

\* 873-908: the MigrationRecord of report_switch_event.
MigrationRecord(c) ==
    [old_instance_id |-> sw[c].old_instance_id,
     old_mode |-> sw[c].old_mode,
     new_instance_id |-> sw[c].new_instance_id,
     new_mode |-> sw[c].new_mode,
     new_pool_id |-> sw[c].new_pool_id,
     snapshot_id |-> sw[c].ami_id,
     switch_initiated_at |-> sw[c].timing_start,
     new_instance_ready_at |-> sw[c].timing_ready,
     traffic_switched_at |-> sw[c].timing_switched,
     old_instance_terminated_at |-> sw[c].timing_terminated,
     trigger |-> sw[c].trigger,
     \* history, not sent: the flag as 857 read it
     auto_terminate |-> sw[c].auto_terminate]

\* An engine for which a failed report is a failed migration.
SwReportStrict(c) ==
    /\ pc[c] = "sw_report"
    /\ \E report_success \in BOOLEAN :
          /\ sw' = [sw EXCEPT ![c].reported = TRUE,
                              ![c].report_success = report_success,
                              ![c].result = FALSE]
          /\ Goto(c, IF report_success THEN "sw_done_id" ELSE "sw_finally")
    /\ UNCHANGED <<agentVars, hb, sp, cm, ec2, ctl, now, obs>>

\* An engine that goes from TERMINATE_OLD to DONE without a report.
SwReportSkipped(c) ==
    /\ pc[c] = "sw_report"
    /\ Goto(c, "sw_done_id")
    /\ UNCHANGED <<agentVars, hb, sp, cm, sw, ec2, ctl, now, obs>>

\* 870-913, REPORT: the record is sent (reported says so: MigrationRecord(c)
\* is then what the controller was sent); report_success is what
\* report_switch_event (502-525) returned, which is only logged.
SwReport(c) ==
    /\ pc[c] = "sw_report"
    /\ \E report_success \in BOOLEAN :
          sw' = [sw EXCEPT ![c].reported = TRUE,
                           ![c].report_success = report_success]
    /\ Goto(c, "sw_done_id")
    /\ UNCHANGED <<agentVars, hb, sp, cm, ec2, ctl, now, obs>>

\* An engine that keeps the predecessor's id at DONE.
SwDoneIdKept(c) ==
    /\ pc[c] = "sw_done_id"
    /\ Goto(c, "sw_done_zone")
    /\ UNCHANGED <<agentVars, hb, sp, cm, sw, ec2, ctl, now, obs>>

\* 917, DONE.
SwDoneId(c) ==
    /\ pc[c] = "sw_done_id"
    /\ config' = [config EXCEPT !.instance_id = sw[c].new_instance_id]
    /\ Goto(c, "sw_done_zone")
    /\ UNCHANGED <<current_mode, current_pool_id, switching_in_progress,
                   switch_lock, stop_event, last_ondemand_price, hb, sp, cm, sw,
                   ec2, ctl, now, obs>>

\* 918-919.
SwDoneZone(c) ==
    /\ pc[c] = "sw_done_zone"
    /\ config' = [config EXCEPT
          !.instance_type = sw[c].new_details.instance_type,
          !.availability_zone = sw[c].new_details.az]
    /\ Goto(c, "sw_done_mode")
    /\ UNCHANGED <<current_mode, current_pool_id, switching_in_progress,
                   switch_lock, stop_event, last_ondemand_price, hb, sp, cm, sw,
                   ec2, ctl, now, obs>>

\* 920.
SwDoneMode(c) ==
    /\ pc[c] = "sw_done_mode"
    /\ current_mode' = sw[c].new_mode
    /\ Goto(c, "sw_done_pool")
    /\ UNCHANGED <<config, current_pool_id, switching_in_progress, switch_lock,
                   stop_event, last_ondemand_price, hb, sp, cm, sw, ec2, ctl,
                   now, obs>>

\* 921-931: the last write, then return True.
SwDonePool(c) ==
    /\ pc[c] = "sw_done_pool"
    /\ current_pool_id' = sw[c].new_pool_id
    /\ sw' = [sw EXCEPT ![c].result = TRUE]
    /\ Goto(c, "sw_finally")
    /\ UNCHANGED <<config, current_mode, switching_in_progress, switch_lock,
                   stop_event, last_ondemand_price, hb, sp, cm, ec2, ctl, now,
                   obs>>

\* The flag cleared on the successful path alone, as it would be were 938 the
\* last statement of the try block instead of a finally clause.
SwFinallyOnSuccessOnly(c) ==
    /\ pc[c] = "sw_finally"
    /\ switching_in_progress' = (sw[c].result # TRUE)
    /\ obs' = IF sw[c].result = TRUE
              THEN [obs EXCEPT !.retired = @ \cup {sw[c].old_instance_id}]
              ELSE obs
    /\ Goto(c, "sw_return")
    /\ UNCHANGED <<config, current_mode, current_pool_id, switch_lock,
                   stop_event, last_ondemand_price, hb, sp, cm, sw, ec2, ctl,
                   now>>

\* 937-938: finally, on every path that passed 758.
SwFinally(c) ==
    /\ pc[c] = "sw_finally"
    /\ switching_in_progress' = FALSE
    /\ obs' = IF sw[c].result = TRUE
              THEN [obs EXCEPT !.retired = @ \cup {sw[c].old_instance_id}]
              ELSE obs
    /\ Goto(c, "sw_return")
    /\ UNCHANGED <<config, current_mode, current_pool_id, switch_lock,
                   stop_event, last_ondemand_price, hb, sp, cm, sw, ec2, ctl,
                   now>>

Engine(c) ==
    \/ SwAcquire(c) \/ SwCheck(c) \/ SwSet(c)
    \/ SwDescribe(c) \/ SwSnapshot(c) \/ SwLaunch(c) \/ SwWaitRunning(c)
    \/ SwVerify(c) \/ SwPrices(c) \/ SwTerminate(c) \/ SwTerminateRet(c)
    \/ SwReport(c)
    \/ SwDoneId(c) \/ SwDoneZone(c) \/ SwDoneMode(c) \/ SwDonePool(c)
    \/ SwFinally(c)

\* ------------------------------------------ _command_processor_loop (707-749)
\* 709: the loop ends once the gate is set.
CmdExit ==
    /\ pc["cmd"] = "idle"
    /\ stop_event
    /\ Goto("cmd", "exited")
    /\ UNCHANGED <<agentVars, hb, sp, cm, sw, ec2, ctl, now, obs>>

\* A drain that starts its tick whether or not the gate is set.
CmdBeginIgnoresGate ==
    /\ pc["cmd"] = "idle"
    /\ cm' = [CmIdle EXCEPT
          !.begin_disabled = ~config.enabled \/ ~config.auto_switch_enabled,
          !.after_abort = cm.after_abort]
    /\ Goto("cmd", IF config.enabled THEN "check_auto" ELSE "idle")
    /\ UNCHANGED <<agentVars, hb, sp, sw, ec2, ctl, now, obs>>

\* A drain that keeps the batch of the tick before.
CmdBeginCarryOver ==
    /\ pc["cmd"] = "idle"
    /\ ~stop_event
    /\ cm' = [cm EXCEPT
          !.begin_disabled = ~config.enabled \/ ~config.auto_switch_enabled]
    /\ Goto("cmd", IF config.enabled THEN "check_auto" ELSE "idle")
    /\ UNCHANGED <<agentVars, hb, sp, sw, ec2, ctl, now, obs>>

\* 711, first operand: a tick begins by reading config.enabled.
\* begin_disabled is history: what both flags were at that moment.
CmdBegin ==
    /\ pc["cmd"] = "idle"
    /\ ~stop_event
    /\ cm' = [CmIdle EXCEPT
          !.begin_disabled = ~config.enabled \/ ~config.auto_switch_enabled,
          !.after_abort = cm.after_abort]
    /\ Goto("cmd", IF config.enabled THEN "check_auto" ELSE "idle")
    /\ UNCHANGED <<agentVars, hb, sp, sw, ec2, ctl, now, obs>>

\* 711, second operand: config.auto_switch_enabled.
CmdCheckAuto ==
    /\ pc["cmd"] = "check_auto"
    /\ Goto("cmd", IF config.auto_switch_enabled THEN "check_progress" ELSE "idle")
    /\ UNCHANGED <<agentVars, hb, sp, cm, sw, ec2, ctl, now, obs>>

\* 715-718.
CmdCheckProgress ==
    /\ pc["cmd"] = "check_progress"
    /\ Goto("cmd", IF switching_in_progress THEN "idle" ELSE "fetch")
    /\ UNCHANGED <<agentVars, hb, sp, cm, sw, ec2, ctl, now, obs>>

\* 720-723: get_pending_commands (473-485); an empty list when the call fails.
CmdFetch ==
    /\ pc["cmd"] = "fetch"
    /\ \E ok \in BOOLEAN :
          LET commands == IF ok THEN ctl.pending ELSE <<>>
          IN /\ cm' = [cm EXCEPT !.commands = commands,
                                 !.idx = 1,
                                 !.acks = [i \in DOMAIN commands |-> 0],
                                 !.after_abort = FALSE]
             /\ Goto("cmd", IF commands = <<>> THEN "idle" ELSE "examine")
    /\ UNCHANGED <<agentVars, hb, sp, sw, ec2, ctl, now, obs>>

\* A drain without the comparison of 726: every command is taken.
AddressedToAnyone(cmd, instance_id) == TRUE

\* 726: if cmd['instance_id'] == self.config.instance_id.
Addressed(cmd, instance_id) == cmd.instance_id = instance_id

\* A drain that hands the token on as it came.
Unnormalized(target_mode) == target_mode

\* 730: 'pool' is mapped to 'spot'.
Normalize(target_mode) == IF target_mode = "pool" THEN "spot" ELSE target_mode

\* The for loop of 725: the next command, or the wait of 749.
NextCommand == IF cm.idx < Len(cm.commands) THEN "examine" ELSE "idle"

\* 725-736: one command of the batch is examined; if it is addressed to the
\* current instance, execute_switch is entered.
CmdExamine ==
    /\ pc["cmd"] = "examine"
    /\ LET cmd == cm.commands[cm.idx]
       IN IF Addressed(cmd, config.instance_id)
          THEN /\ cm' = [cm EXCEPT !.examined_id = config.instance_id]
               /\ sw' = [sw EXCEPT !["cmd"] =
                            [SwIdle EXCEPT !.target_mode = Normalize(cmd.target_mode),
                                           !.trigger = "manual"]]
               /\ Goto("cmd", "sw_lock")
          ELSE /\ cm' = [cm EXCEPT !.examined_id = config.instance_id,
                                   !.idx = IF NextCommand = "idle" THEN @ ELSE @ + 1,
                                   !.done = NextCommand = "idle"]
               /\ UNCHANGED sw
               /\ Goto("cmd", NextCommand)
    /\ UNCHANGED <<agentVars, hb, sp, ec2, ctl, now, obs>>

\* mark_command_executed (487-500): the controller drops the command when
\* the request reaches it.
Acknowledged(pending, id) ==
    SelectSeq(pending, LAMBDA q : q.id # id)

\* 738-744: execute_switch has returned; the command is acknowledged.
CmdAck ==
    /\ pc["cmd"] = "sw_return"
    /\ \E ok \in BOOLEAN :
          ctl' = IF ok
                 THEN [ctl EXCEPT !.pending =
                          Acknowledged(@, cm.commands[cm.idx].id)]
                 ELSE ctl
    /\ cm' = [cm EXCEPT !.acks[cm.idx] = @ + 1,
                        !.after_abort = @ \/ sw["cmd"].aborted_at = "SNAPSHOT",
                        !.idx = IF NextCommand = "idle" THEN @ ELSE @ + 1,
                        !.done = NextCommand = "idle"]
    /\ sw' = [sw EXCEPT !["cmd"] = SwIdle]
    /\ Goto("cmd", NextCommand)
    /\ UNCHANGED <<agentVars, hb, sp, ec2, now, obs>>

\* ------------------------------------------------------------- other callers
\* execute_switch is a public method with a trigger argument; "ext" stands
\* for another thread of the process that calls it once.
ExtCall ==
    /\ pc["ext"] = "ext_idle"
    /\ \E target_mode \in {"spot", "ondemand"} :
          sw' = [sw EXCEPT !["ext"] =
                    [SwIdle EXCEPT !.target_mode = target_mode,
                                   !.trigger = "auto"]]
    /\ Goto("ext", "sw_lock")
    /\ UNCHANGED <<agentVars, hb, sp, cm, ec2, ctl, now, obs>>

ExtReturn ==
    /\ pc["ext"] = "sw_return"
    /\ sw' = [sw EXCEPT !["ext"] = SwIdle]
    /\ Goto("ext", "ext_done")
    /\ UNCHANGED <<agentVars, hb, sp, cm, ec2, ctl, now, obs>>

\* ------------------------------------------------------------ the environment
\* The controller queues a command for some instance it has heard of.  The
\* agent sees the queue only in get_pending_commands (720), so a command
\* queued at any earlier moment is one queued just before that call.
CtlIssue ==
    /\ ctl.registered
    /\ pc["cmd"] = "fetch"
    /\ ctl.issued < MaxCmds
    /\ \E i \in DOMAIN ec2.instances, t \in TargetTokens :
          ctl' = [ctl EXCEPT
             !.issued = @ + 1,
             !.pending = Append(@, [id |-> ctl.issued + 1, instance_id |-> i,
                                    target_mode |-> t])]
    /\ UNCHANGED <<agentVars, pc, hb, sp, cm, sw, ec2, now, obs>>

\* A controller that queues a single command.
CtlIssueOnce ==
    /\ ctl.issued = 0
    /\ CtlIssue

\* The operator changes the agent's flags at the controller.
CtlSetFlags ==
    /\ ctl.registered
    /\ ctl.changes < MaxFlagChanges
    /\ \E f \in FlagSets \ {ctl.flags} :
          ctl' = [ctl EXCEPT !.flags = f, !.changes = @ + 1]
    /\ UNCHANGED <<agentVars, pc, hb, sp, cm, sw, ec2, now, obs>>

\* Time passes.
Tick ==
    /\ now < MaxClock
    /\ now' = now + 1
    /\ UNCHANGED <<agentVars, pc, hb, sp, cm, sw, ec2, ctl, obs>>

\* ------------------------------------------------ _spot_price_monitor (644-689)
\* 646: the loop ends once the gate is set.
SpExit ==
    /\ pc["spot"] = "idle"
    /\ stop_event
    /\ Goto("spot", "exited")
    /\ UNCHANGED <<agentVars, hb, sp, cm, sw, ec2, ctl, now, obs>>

\* 648-661: a tick.  The instance type of the metadata service is the one
\* the agent already holds; the pool samples; nothing more happens when
\* there are none; else the on-demand price, and the instance id is read as
\* the argument of get_current_mode.  retired is history: the ids already
\* replaced when the tick began.
SpPrices ==
    /\ pc["spot"] = "idle"
    /\ ~stop_event
    /\ \E zones \in {{}, Zones}, fetched \in BOOLEAN :
          LET spot_pools == get_spot_prices(config.instance_type, zones)
          IN IF spot_pools = {}
             THEN /\ UNCHANGED <<sp, last_ondemand_price>>
                  /\ Goto("spot", "idle")
             ELSE /\ last_ondemand_price' = FetchOndemand(fetched)
                  /\ sp' = [sp EXCEPT !.described = config.instance_id,
                                      !.retired = obs.retired]
                  /\ Goto("spot", "describe")
    /\ UNCHANGED <<config, current_mode, current_pool_id, switching_in_progress,
                   switch_lock, stop_event, hb, cm, sw, ec2, ctl, now, obs>>

\* 660-662: get_current_mode answers for the instance id read before.
SpDescribe ==
    /\ pc["spot"] = "describe"
    /\ \E ok \in BOOLEAN :
          LET mode == get_current_mode(
                         IF ok THEN get_instance_details(sp.described)
                         ELSE NoDetails)
          IN sp' = [sp EXCEPT !.mode = mode[1], !.pool = mode[2]]
    /\ Goto("spot", "set_mode")
    /\ UNCHANGED <<agentVars, hb, cm, sw, ec2, ctl, now, obs>>

\* A probe that keeps a lease class it already knows.
SpSetModeKeepsKnown ==
    /\ pc["spot"] = "set_mode"
    /\ current_mode' = IF current_mode \in {"spot", "ondemand"} THEN current_mode
                       ELSE sp.mode
    /\ Goto("spot", "set_pool")
    /\ UNCHANGED <<config, current_pool_id, switching_in_progress, switch_lock,
                   stop_event, last_ondemand_price, hb, sp, cm, sw, ec2, ctl,
                   now, obs>>

\* A probe that also writes back the instance id it described.
SpSetModeAndId ==
    /\ pc["spot"] = "set_mode"
    /\ current_mode' = sp.mode
    /\ config' = [config EXCEPT !.instance_id = sp.described]
    /\ Goto("spot", "set_pool")
    /\ UNCHANGED <<current_pool_id, switching_in_progress, switch_lock,
                   stop_event, last_ondemand_price, hb, sp, cm, sw, ec2, ctl,
                   now, obs>>

\* 660: self.current_mode is stored first,
SpSetMode ==
    /\ pc["spot"] = "set_mode"
    /\ current_mode' = sp.mode
    /\ Goto("spot", "set_pool")
    /\ UNCHANGED <<config, current_pool_id, switching_in_progress, switch_lock,
                   stop_event, last_ondemand_price, hb, sp, cm, sw, ec2, ctl,
                   now, obs>>

\* then self.current_pool_id.
SpSetPool ==
    /\ pc["spot"] = "set_pool"
    /\ current_pool_id' = sp.pool
    /\ Goto("spot", "report")
    /\ UNCHANGED <<config, current_mode, switching_in_progress, switch_lock,
                   stop_event, last_ondemand_price, hb, sp, cm, sw, ec2, ctl,
                   now, obs>>

\* 664-672: instance_data of the pricing report.
InstanceData ==
    [instance_id |-> config.instance_id,
     instance_type |-> config.instance_type,
     az |-> config.availability_zone,
     ami_id |-> config.ami_id,
     current_mode |-> current_mode,
     current_pool_id |-> current_pool_id]

\* 664-684: the pricing report is sent (InstanceData as it is in a state with
\* the probe at "report" is what the controller is sent), then the wait of 689.
SpReport ==
    /\ pc["spot"] = "report"
    /\ sp' = SpIdle
    /\ Goto("spot", "idle")
    /\ UNCHANGED <<agentVars, hb, cm, sw, ec2, ctl, now, obs>>

\* ---------------------------------------------- _ondemand_price_monitor (691-705)
OdExit ==
    /\ pc["od"] = "idle"
    /\ stop_event
    /\ Goto("od", "exited")
    /\ UNCHANGED <<agentVars, hb, sp, cm, sw, ec2, ctl, now, obs>>

\* 695-699: a fetched price replaces the cached one.
OdFetch ==
    /\ pc["od"] = "idle"
    /\ ~stop_event
    /\ \E fetched \in BOOLEAN :
          last_ondemand_price' = IF fetched THEN Price ELSE last_ondemand_price
    /\ UNCHANGED <<config, current_mode, current_pool_id, switching_in_progress,
                   switch_lock, stop_event, pc, hb, sp, cm, sw, ec2, ctl, now,
                   obs>>

\* ------------------------------------------------------------ specifications
Startup ==
    \/ InitCheckEc2 \/ InitMetadata \/ InitResourceManager \/ InitRegister
    \/ StartThreads

Shutdown ==
    \/ Interrupt \/ ShutdownHeartbeat \/ ShutdownSet \/ ShutdownJoin
    \/ HbExit \/ SpExit \/ OdExit \/ CmdExit

HeartbeatTick ==
    \/ HbSend \/ HbSetEnabled \/ HbSetAuto

ProbeTick ==
    \/ SpPrices \/ SpDescribe \/ SpSetMode \/ SpSetPool \/ SpReport

DrainTick ==
    \/ CmdBegin \/ CmdCheckAuto \/ CmdCheckProgress \/ CmdFetch
    \/ CmdExamine \/ CmdAck
    \/ Engine("cmd")

\* The whole agent.
Next ==
    \/ Startup \/ Shutdown
    \/ HeartbeatTick \/ ProbeTick \/ OdFetch \/ DrainTick
    \/ CtlIssue \/ CtlSetFlags \/ Tick

Spec == Init /\ [][Next]_vars

\* The command drain and the engine alone.
NextCore == Startup \/ DrainTick \/ CtlIssue

SpecCore == Init /\ [][NextCore]_vars

\* The command drain and the engine under a running clock.
NextClock == Startup \/ DrainTick \/ CtlIssueOnce \/ Tick

SpecClock == Init /\ [][NextClock]_vars

\* The command drain with the heartbeat and an operator who changes the flags.
NextFlags == Startup \/ HeartbeatTick \/ DrainTick \/ CtlIssueOnce \/ CtlSetFlags

SpecFlags == Init /\ [][NextFlags]_vars

\* The engine with the price probe and the heartbeat.
NextProbe == Startup \/ HeartbeatTick \/ ProbeTick \/ DrainTick \/ CtlIssueOnce

SpecProbe == Init /\ [][NextProbe]_vars

\* execute_switch entered from two threads.
NextReentrant ==
    \/ Startup \/ DrainTick \/ CtlIssueOnce
    \/ ExtCall \/ ExtReturn \/ Engine("ext")

SpecReentrant == Init /\ [][NextReentrant]_vars

\* The same two callers, each taking its next step sooner or later: every
\* call a step of the engine makes returns, and the lock of 753 is handed to
\* a thread that waits for it.
SpecReentrantFair ==
    /\ Init
    /\ [][NextReentrant]_vars
    /\ WF_vars(DrainTick)
    /\ WF_vars(Engine("ext"))

\* The agent of an operator who starts it disabled, with the heartbeat, the
\* price probe and the command drain each taking its next step sooner or
\* later (every loop waits a bounded time between ticks) and a controller
\* that can be reached: a heartbeat and a fetch that are attempted again and
\* again succeed at some time.
InitDisabled == Init /\ ~ctl.flags.enabled

NextLive ==
    \/ Startup \/ HeartbeatTick \/ DrainTick
    \/ CtlIssueOnce \/ CtlSetFlags

SpecLive ==
    /\ InitDisabled
    /\ [][NextLive]_vars
    /\ WF_vars(HeartbeatTick)
    /\ WF_vars(DrainTick)
    /\ SF_vars(HbSend /\ pc'["hb"] = "set_enabled")
    /\ SF_vars(CmdFetch /\ cm'.commands = ctl.pending)

\* The agent from start to stop, on a spot instance and with every flag left
\* on at the controller: startup, the four periodic tasks, one command, and
\* the shutdown signal at any moment.
InitStop ==
    /\ Init
    /\ ec2.instances[1].lifecycle = "spot"
    /\ ctl.flags = HbIdle.cfg

NextStop ==
    \/ Startup \/ Shutdown
    \/ HeartbeatTick \/ ProbeTick \/ OdFetch \/ DrainTick
    \/ CtlIssueOnce

SpecStop == InitStop /\ [][NextStop]_vars

\* The agent from start to stop with the price tasks waiting for their
\* periods, and every task taking its next step sooner or later: each call a
\* task makes returns, and a task that waits on the gate wakes when the gate
\* is set or its period is over.  Nothing is required of the main thread:
\* its joins may take as long as they like.
NextHalt ==
    \/ Startup \/ Shutdown
    \/ HeartbeatTick \/ DrainTick
    \/ CtlIssueOnce

SpecHalt ==
    /\ InitStop
    /\ [][NextHalt]_vars
    /\ WF_vars(HeartbeatTick \/ HbExit)
    /\ WF_vars(DrainTick \/ CmdExit)
    /\ WF_vars(SpExit)
    /\ WF_vars(OdExit)

\* ------------------------------------------------------------------ claims
\* C1: at most one invocation of execute_switch is past the check-and-set of
\* 753-758 (is executing migration steps) in any reachable state, however the
\* callers and the periodic threads interleave.
C1_AtMostOneMigration ==
    Cardinality({c \in Callers : Running(c)}) <= 1

\* C1 happens: one caller is executing steps and the other was turned away.
C1_Witness ==
    \E c \in Callers, d \in Callers :
        /\ Running(c)
        /\ pc[d] = "sw_return"
        /\ sw[d].aborted_at = "REJECTED"

\* The thread of the command drain is inside execute_switch.
InEngine(c) == pc[c] \in {"sw_lock", "sw_check", "sw_set", "sw_return"} \/ Running(c)

\* C2: every command of a fetched batch gets exactly one
\* mark_command_executed, whether its migration succeeded or aborted or the
\* command was skipped because it names another instance: when the batch is
\* through, each of its commands has been acknowledged once.
C2_EveryCommandAcknowledgedOnce ==
    cm.done => \A i \in DOMAIN cm.commands : cm.acks[i] = 1

\* C3: a command whose instance_id differs from config.instance_id when it is
\* examined never enters execute_switch and causes no cloud call: the step
\* that examines it leaves the engine's variables and the cloud alone and
\* goes on to the next command or to the wait, and whenever the drain is
\* inside the engine the command at hand names the id it was compared with.
C3_StaleCommandNeverRunsEngine ==
    /\ [](InEngine("cmd") =>
            cm.commands[cm.idx].instance_id = cm.examined_id)
    /\ [][(/\ pc["cmd"] = "examine"
           /\ cm.commands[cm.idx].instance_id # config.instance_id)
          => (/\ pc'["cmd"] \in {"examine", "idle"}
              /\ sw' = sw
              /\ ec2' = ec2
              /\ switching_in_progress' = switching_in_progress)]_vars

\* C3 happens: the last command of a batch named another instance and was
\* passed over.
C3_Witness ==
    /\ cm.done
    /\ cm.commands[cm.idx].instance_id # cm.examined_id
    /\ cm.examined_id = config.instance_id
    /\ pc["cmd"] = "idle"

\* C7: a matching command with target_mode "pool" or "spot" drives the engine
\* with "spot" and its run request carries the spot market options
\* (persistent, interruption behaviour stop); one with "ondemand" drives it
\* with "ondemand" and its run request carries no market options.
C7_TargetNormalization ==
    InEngine("cmd") =>
        LET cmd == cm.commands[cm.idx]
            run == sw["cmd"].launch_params
        IN /\ cmd.target_mode \in {"pool", "spot"} =>
                /\ sw["cmd"].target_mode = "spot"
                /\ run # Unsent =>
                      run[1].InstanceMarketOptions =
                         {<<"MarketType", "spot">>,
                          <<"SpotInstanceType", "persistent">>,
                          <<"InstanceInterruptionBehavior", "stop">>}
           /\ cmd.target_mode = "ondemand" =>
                /\ sw["cmd"].target_mode = "ondemand"
                /\ run # Unsent => run[1].InstanceMarketOptions = NoOptions

\* C7 happens: the run request of a "pool" command was sent.
C7_Witness ==
    /\ InEngine("cmd")
    /\ cm.commands[cm.idx].target_mode = "pool"
    /\ sw["cmd"].launch_params # Unsent
    /\ pc["cmd"] = "sw_wait_running"

\* C10: a migration whose image never becomes available aborts at SNAPSHOT:
\* no run request, no terminate request and no switch report; the flag is
\* false again when execute_switch has returned; and the next tick of the
\* drain passes the in-progress check, that is, fetches.
C10_SnapshotAbort ==
    /\ \A c \in Callers :
          sw[c].aborted_at = "SNAPSHOT" =>
             /\ sw[c].launch_params = Unsent
             /\ sw[c].new_instance_id = 0
             /\ sw[c].terminate_sent = 0
             /\ ~sw[c].reported
             /\ pc[c] = "sw_return" => ~switching_in_progress
    /\ (cm.after_abort /\ cm.commands = <<>>) =>
          /\ pc["cmd"] \in {"idle", "check_auto", "check_progress", "fetch"}
          /\ ~switching_in_progress

\* C10 happens: the tick after the abort is about to fetch.
C10_Witness ==
    /\ cm.after_abort
    /\ pc["cmd"] = "fetch"

\* execute_switch has returned True to caller c (the finally clause included).
ReturnedSuccess(c) == pc[c] = "sw_return" /\ sw[c].result = TRUE

\* C4: when execute_switch returns success, config.instance_id is the id of
\* the launched successor and differs from the id the migration started
\* with; and a heartbeat or pricing report whose tick began after a
\* successful return names no replaced instance, that is, names the successor
\* (a heartbeat is sent in the state its tick begins in).
C4_IdentityIsSuccessor ==
    /\ \A c \in Callers :
          ReturnedSuccess(c) =>
             /\ config.instance_id = sw[c].new_instance_id
             /\ config.instance_id \in DOMAIN ec2.instances
             /\ ec2.instances[config.instance_id].parent = sw[c].old_instance_id
             /\ config.instance_id # sw[c].old_instance_id
    /\ (pc["hb"] = "idle" /\ ~stop_event) =>
          Heartbeat("online", {config.instance_id}).monitored_instances
             \cap obs.retired = {}
    /\ pc["spot"] = "report" => InstanceData.instance_id \notin sp.retired

\* C4 happens: after a successful return a heartbeat tick is starting and a
\* pricing report of a later probe tick is being sent.
C4_Witness ==
    /\ obs.retired # {}
    /\ pc["hb"] = "idle"
    /\ pc["spot"] = "report"
    /\ sp.retired # {}

\* C5: after a successful migration current_mode is the lease class observed
\* for the successor at VERIFY, however the price probe interleaves.
C5_ModeIsObservedMode ==
    \A c \in Callers :
       ReturnedSuccess(c) => current_mode = sw[c].new_mode

\* C6: in every record sent by report_switch_event, with a clock that never
\* runs backwards, initiated <= ready <= switched, and switched <= terminated
\* when the latter is not null.
C6_TimingsOrdered ==
    \A c \in Callers :
       sw[c].reported =>
          LET r == MigrationRecord(c)
          IN /\ r.switch_initiated_at # NoTime
             /\ r.switch_initiated_at <= r.new_instance_ready_at
             /\ r.new_instance_ready_at <= r.traffic_switched_at
             /\ r.old_instance_terminated_at # NoTime =>
                   r.traffic_switched_at <= r.old_instance_terminated_at

\* C6 happens: a record with a termination time was sent and the clock has
\* moved during the migration.
C6_Witness ==
    /\ sw["cmd"].reported
    /\ sw["cmd"].timing_start < sw["cmd"].timing_switched
    /\ sw["cmd"].timing_terminated # NoTime

\* C8: if auto_terminate_enabled is false when the migration reaches
\* TERMINATE_OLD (857), no terminate request is issued for the predecessor and
\* the record has old_instance_terminated_at = null.
C8_NoTerminateWhenDisabled ==
    \A c \in Callers :
       (sw[c].timing_switched # NoTime /\ ~sw[c].auto_terminate) =>
          /\ sw[c].terminate_sent = 0
          /\ pc[c] # "sw_terminate_ret"
          /\ MigrationRecord(c).old_instance_terminated_at = NoTime

\* C8 happens: a migration that read the flag as false has reported and
\* returned success.
C8_Witness ==
    /\ ReturnedSuccess("cmd")
    /\ sw["cmd"].reported
    /\ ~sw["cmd"].auto_terminate

\* C9: a tick of the command drain that begins with enabled = false or
\* auto_switch_enabled = false does not call get_pending_commands (so it
\* neither enters the engine nor acknowledges anything).  begin_disabled is
\* what the two flags were when the tick read the first of them; idx leaves 0
\* when get_pending_commands is called.
C9_DisabledTickIsNoOp ==
    cm.begin_disabled => (cm.idx = 0 /\ ~InEngine("cmd"))

\* The controller's reply to the heartbeat switches the agent on.
CtlEnabled == ctl.flags.enabled /\ ctl.flags.auto_switch_enabled

\* A heartbeat tick has read the controller's flags as enabled (627-634).
HbObservedEnabled ==
    /\ pc["hb"] = "set_enabled"
    /\ hb.cfg.enabled
    /\ hb.cfg.auto_switch_enabled

\* A tick of the drain has called get_pending_commands, got what the
\* controller had queued and gone through every command of the batch.
Drained ==
    /\ pc["cmd"] = "idle"
    /\ cm.idx # 0
    /\ cm.commands = <<>> => ctl.pending = <<>>
    /\ cm.commands # <<>> => cm.done

C12_ImageIsLaunchImage ==
    \A c \in Callers : ReturnedSuccess(c) => config.ami_id = sw[c].ami_id

\* C13: the identity a pricing report carries is the identity of one
\* instance: the lease class it names, when it names one, is the lease class
\* of the instance it names (DONE replaces id and lease class as one step, as
\* seen by the periodic tasks).
C13_ReportCarriesOneIdentity ==
    (pc["spot"] = "report" /\ InstanceData.current_mode # "unknown") =>
        InstanceData.current_mode =
            get_current_mode(get_instance_details(InstanceData.instance_id))[1]

\* C14: wherever the pair (lease class, pool id) is read after startup, by
\* the pricing report (670-671) or by a migration that records where it
\* starts from (766-767), the pool id is present iff the lease class is
\* "spot".
C14_PoolIffReclaimable ==
    /\ pc["spot"] = "report" =>
          (InstanceData.current_pool_id # NoPool <=> InstanceData.current_mode = "spot")
    /\ \A c \in Callers :
          Running(c) => (sw[c].old_pool_id # NoPool <=> sw[c].old_mode = "spot")

\* initialize has returned (606): the threads are about to be started or
\* have been started.
StartupSucceeded == pc["main"] = "start_threads" \/ pc["hb"] # "unstarted"

\* C15: after a successful startup, through migrations and probe refreshes,
\* instance_id, instance_type, zone, image_id, hostname and region are all
\* non-empty.
C15_IdentityNonEmpty ==
    StartupSucceeded =>
        /\ config.instance_id # 0
        /\ config.instance_type # ""
        /\ config.availability_zone # ""
        /\ config.ami_id # 0
        /\ config.hostname # ""
        /\ config.region # ""

\* C15 happens: a migration has replaced the identity and the probe has
\* refreshed the lease class since.
C15_Witness ==
    /\ ReturnedSuccess("cmd")
    /\ config.instance_id = sw["cmd"].new_instance_id
    /\ pc["spot"] = "report"
    /\ sp.described = config.instance_id

\* C16: config.instance_id changes only in the metadata step of startup
\* (562) and in the first write of DONE (917); and when a migration has
\* returned failure, the id is still the one that migration started from.
C16_InstanceIdFrame ==
    /\ [](\A c \in Callers :
            (pc[c] = "sw_return" /\ ~sw[c].result /\ sw[c].old_instance_id # 0)
                => config.instance_id = sw[c].old_instance_id)
    /\ [][config'.instance_id # config.instance_id =>
             \/ pc["main"] = "init_metadata" /\ pc'["main"] # "init_metadata"
             \/ \E c \in Callers :
                   /\ pc[c] = "sw_done_id"
                   /\ pc'[c] = "sw_done_zone"
                   /\ config'.instance_id = sw[c].new_instance_id]_vars

\* C16 happens: DONE has just written the successor's id while the probe is
\* in the middle of a tick.
C16_Witness ==
    /\ pc["cmd"] = "sw_done_zone"
    /\ config.instance_id = sw["cmd"].new_instance_id
    /\ config.instance_id # sw["cmd"].old_instance_id
    /\ pc["spot"] = "set_mode"

\* C17: when the periodic tasks are about to be started, every startup step
\* has succeeded: the host is a cloud host, the identity is populated, the
\* initial lease class was derived from a description of the instance, and
\* registration has given an agent id.
C17_TasksStartAfterEveryStepSucceeded ==
    pc["main"] = "start_threads" =>
        /\ config.is_ec2
        /\ config.instance_id # 0
        /\ current_mode \in {"spot", "ondemand"}
        /\ config.agent_id # 0

\* C18: once shutdown has attempted its offline heartbeat (978), the stop
\* gate is set: the gate was set before the heartbeat was sent.
C18_GateSetBeforeOfflineHeartbeat ==
    pc["main"] = "shutdown_set" => stop_event

\* The four periodic tasks (608-621).
PeriodicTasks == {"hb", "spot", "od", "cmd"}

\* C19: after startup and while the stop gate is unset, each of the four
\* periodic tasks is in its loop, whatever calls have failed and whatever
\* migration was aborted; and the heartbeat, when it waits for its next
\* period, can send again.
C19_TasksSurviveFailures ==
    /\ (ctl.registered /\ pc["main"] # "start_threads" /\ ~stop_event) =>
          \A t \in PeriodicTasks : pc[t] \notin {"unstarted", "exited", "killed"}
    /\ (pc["hb"] = "idle" /\ ~stop_event) => ENABLED HbSend

\* C19 happens: a migration was aborted, the probe's describe has just
\* failed, and every task is still in its loop with the gate unset.
C19_Witness ==
    /\ cm.after_abort
    /\ pc["cmd"] = "idle"
    /\ pc["spot"] = "report"
    /\ sp.mode = "unknown"
    /\ pc["hb"] = "idle"
    /\ pc["od"] = "idle"
    /\ ~stop_event

\* The control flags the agent holds.
ConfigFlags ==
    [enabled |-> config.enabled,
     auto_switch_enabled |-> config.auto_switch_enabled,
     auto_terminate_enabled |-> config.auto_terminate_enabled]

\* C20: a heartbeat tick is idempotent.  The send and get_config change
\* nothing of the agent's state, and every write of a tick whose flags are
\* the flags the agent already holds (a repeated tick) leaves the control
\* flags, the identity, the lease class, the price cache and in_progress as
\* they are.
C20_HeartbeatIdempotent ==
    [][/\ (pc["hb"] = "idle" /\ pc'["hb"] = "set_enabled")
            => UNCHANGED agentVars
       /\ (/\ pc["hb"] \in {"set_enabled", "set_auto"}
           /\ pc'["hb"] # pc["hb"]
           /\ hb.cfg = ConfigFlags)
            => UNCHANGED agentVars]_vars

\* C20 happens: the operator changed the flags, one tick has applied them,
\* and a later tick has read the same flags again.
C20_Witness ==
    /\ pc["hb"] = "set_enabled"
    /\ hb.cfg = ConfigFlags
    /\ ctl.flags = hb.cfg
    /\ ctl.changes = 1
    /\ last_ondemand_price # 0

\* C21: a terminate request is issued only in a migration that has created
\* its image, launched its successor, seen it running and described it at
\* VERIFY, and it names the predecessor; a migration that aborted has issued
\* none.
C21_TerminateOnlyLast ==
    \A c \in Callers :
       /\ sw[c].terminate_sent # 0 =>
             /\ sw[c].ami_id # 0
             /\ sw[c].ami_id \in ec2.images
             /\ sw[c].launch_params # Unsent
             /\ sw[c].new_instance_id \in DOMAIN ec2.instances
             /\ sw[c].timing_ready # NoTime
             /\ sw[c].new_details # NoDetails
             /\ sw[c].new_details.instance_id = sw[c].new_instance_id
             /\ sw[c].terminate_sent = sw[c].old_instance_id
       /\ sw[c].aborted_at # None => sw[c].terminate_sent = 0

\* C21 happens: the terminate request for the predecessor is out.
C21_Witness ==
    /\ pc["cmd"] = "sw_terminate_ret"
    /\ sw["cmd"].terminate_sent = sw["cmd"].old_instance_id
    /\ sw["cmd"].new_details # NoDetails

\* The invocation of caller c is past REPORT: in DONE, or in the finally
\* clause or back at its caller without having aborted.
PastReport(c) ==
    \/ pc[c] \in {"sw_done_id", "sw_done_zone", "sw_done_mode", "sw_done_pool"}
    \/ pc[c] \in {"sw_finally", "sw_return"} /\ sw[c].aborted_at = None

\* C22: switch_report is sent once in every migration that gets as far as
\* REPORT, in the step at REPORT and nowhere else, and never in a migration
\* that aborted or was rejected because another was in progress.
C22_ReportExactlyOnce ==
    /\ [](\A c \in Callers :
            /\ pc[c] = "sw_report" => ~sw[c].reported
            /\ PastReport(c) => sw[c].reported
            /\ sw[c].aborted_at # None => ~sw[c].reported)
    /\ [][\A c \in Callers :
             (sw'[c].reported /\ ~sw[c].reported) =>
                 (pc[c] = "sw_report" /\ pc'[c] = "sw_done_id")]_vars

\* C22 happens: one invocation was rejected because the other, which is past
\* REPORT, was in progress.
C22_Witness ==
    /\ sw["ext"].aborted_at = "REJECTED"
    /\ PastReport("cmd")
    /\ sw["cmd"].reported
    /\ Running("cmd")

\* The terminate request of caller c's migration was sent and failed.
TerminateFailed(c) ==
    /\ sw[c].terminate_sent # 0
    /\ sw[c].terminate_sent \notin ec2.terminated
    /\ pc[c] \notin {"sw_terminate", "sw_terminate_ret"}

\* C23: when the terminate request for the predecessor has failed, the
\* migration goes on: it is never aborted, the record it sends has no time
\* of termination, and it returns success with the identity replaced by the
\* successor's.
C23_TerminateFailureIsNotFatal ==
    \A c \in Callers :
       TerminateFailed(c) =>
          /\ sw[c].aborted_at = None
          /\ sw[c].timing_terminated = NoTime
          /\ sw[c].reported =>
                MigrationRecord(c).old_instance_terminated_at = NoTime
          /\ PastReport(c) => sw[c].reported
          /\ pc[c] = "sw_return" =>
                /\ sw[c].result
                /\ config.instance_id = sw[c].new_instance_id

\* C23 happens: the request failed and execute_switch has returned.
C23_Witness ==
    /\ TerminateFailed("cmd")
    /\ pc["cmd"] = "sw_return"
    /\ sw["cmd"].old_instance_id \notin ec2.terminated

\* report_switch_event was called in caller c's migration and returned False.
ReportFailed(c) == sw[c].reported /\ ~sw[c].report_success

\* C24: when switch_report has failed, nothing is undone: the successor is
\* still there and no terminate request names it, a predecessor whose
\* termination was recorded is terminated, the migration is not aborted, and
\* execute_switch returns success with the identity replaced by the
\* successor's.
C24_ReportFailureRollsNothingBack ==
    \A c \in Callers :
       ReportFailed(c) =>
          /\ sw[c].aborted_at = None
          /\ sw[c].new_instance_id \in DOMAIN ec2.instances
          /\ sw[c].new_instance_id \notin ec2.terminated
          /\ sw[c].timing_terminated # NoTime =>
                sw[c].old_instance_id \in ec2.terminated
          /\ PastReport(c)
          /\ pc[c] = "sw_return" =>
                /\ sw[c].result
                /\ config.instance_id = sw[c].new_instance_id

\* C24 happens: the report failed after the predecessor was terminated, and
\* execute_switch has returned.
C24_Witness ==
    /\ ReportFailed("cmd")
    /\ pc["cmd"] = "sw_return"
    /\ sw["cmd"].old_instance_id \in ec2.terminated

\* VERIFY has run in caller c's migration: the successor was described.
Verified(c) == sw[c].new_details # NoDetails

\* The lease class the successor of caller c's migration runs under.
ObservedMode(c) ==
    get_current_mode(get_instance_details(sw[c].new_instance_id))[1]

\* C25: when VERIFY has observed a lease class that is not the requested one
\* (the successor's own class, or 'unknown' when the second describe failed),
\* the migration does not abort, the record's new mode is the observed class
\* and not the requested one, and execute_switch returns success.
C25_ObservedModeReported ==
    \A c \in Callers :
       Verified(c) /\ sw[c].new_mode # sw[c].target_mode =>
          /\ sw[c].aborted_at = None
          /\ MigrationRecord(c).new_mode \in {ObservedMode(c), "unknown"}
          /\ MigrationRecord(c).new_mode # sw[c].target_mode
          /\ PastReport(c) => sw[c].reported
          /\ pc[c] = "sw_return" => sw[c].result

\* C25 happens: 'spot' was requested, VERIFY observed 'unknown', and the
\* migration was reported with that class and returned.
C25_Witness ==
    /\ pc["cmd"] = "sw_return"
    /\ sw["cmd"].reported
    /\ sw["cmd"].target_mode = "spot"
    /\ MigrationRecord("cmd").new_mode = "unknown"

\* The instances launched with instance i as their parent.
SuccessorsOf(i) ==
    {j \in DOMAIN ec2.instances : ec2.instances[j].parent = i}

\* C26: there is no compensating delete.  An instance is terminated only in
\* the terminate step of a migration that has not aborted and whose
\* predecessor it is, never as that migration's successor; no image is ever
\* removed; and after an abort at any step the image that was created and the
\* successor that was launched are still there.
C26_NoCompensatingDelete ==
    /\ [](\A c \in Callers :
            /\ sw[c].terminate_sent \in {0, sw[c].old_instance_id}
            /\ sw[c].terminate_sent # 0 =>
                  sw[c].terminate_sent # sw[c].new_instance_id
            /\ sw[c].aborted_at # None =>
                  /\ sw[c].ami_id # 0 => sw[c].ami_id \in ec2.images
                  /\ SuccessorsOf(sw[c].old_instance_id)
                        \cap ec2.terminated = {})
    /\ [](\A i \in ec2.terminated : SuccessorsOf(i) # {})
    /\ [][/\ ec2.images \subseteq ec2'.images
          /\ \A i \in ec2'.terminated \ ec2.terminated :
                \E c \in Callers :
                   /\ pc[c] = "sw_terminate_ret"
                   /\ sw[c].aborted_at = None
                   /\ i = sw[c].old_instance_id
                   /\ i # sw[c].new_instance_id]_vars

\* C26 happens: a migration aborted at VERIFY and has returned; its image and
\* its successor are left behind.
C26_Witness ==
    /\ pc["cmd"] = "sw_return"
    /\ sw["cmd"].aborted_at = "VERIFY"
    /\ sw["cmd"].ami_id \in ec2.images
    /\ sw["cmd"].new_instance_id \in DOMAIN ec2.instances \ ec2.terminated

\* The drain is between the start of a tick and its fetch.
BeforeFetch == pc["cmd"] \in {"check_auto", "check_progress", "fetch"}

\* C27: a tick starts with no commands; the batch of a tick is what the
\* controller returned at its fetch, in the controller's order; the commands
\* are taken one by one in that order; the engine is entered only for the
\* command under examination, when it is addressed to the node; the drain
\* moves on to the next command only from an unaddressed command or from the
\* acknowledgement that follows the engine's return; and a command is
\* acknowledged at most once in a tick.
C27_DrainInOrderNoCarryOver ==
    /\ [](BeforeFetch => cm.commands = <<>> /\ cm.idx = 0)
    /\ [](pc["cmd"] = "examine" \/ InEngine("cmd") =>
            /\ cm.idx \in DOMAIN cm.commands
            /\ \A i \in DOMAIN cm.commands :
                  /\ cm.acks[i] \in {0, 1}
                  /\ i >= cm.idx => cm.acks[i] = 0)
    /\ [](InEngine("cmd") =>
            sw["cmd"].target_mode = Normalize(cm.commands[cm.idx].target_mode))
    /\ [][/\ pc["cmd"] = "fetch" /\ pc'["cmd"] # "fetch" =>
                /\ cm'.commands \in {ctl.pending, <<>>}
                /\ cm'.idx = 1
          /\ pc["cmd"] # "fetch" /\ pc'["cmd"] # "idle" /\ pc["cmd"] # "idle" =>
                cm'.commands = cm.commands
          /\ pc["cmd"] \in {"examine", "sw_return"} /\ pc'["cmd"] = "examine" =>
                cm'.idx = cm.idx + 1
          /\ InEngine("cmd") /\ pc["cmd"] # "sw_return" => cm'.idx = cm.idx
          /\ pc["cmd"] = "examine" /\ pc'["cmd"] # "examine" =>
                /\ cm'.idx = cm.idx
                /\ cm'.acks = cm.acks
                /\ pc'["cmd"] = "sw_lock" <=>
                      Addressed(cm.commands[cm.idx], config.instance_id)
          /\ pc["cmd"] = "examine" /\ pc'["cmd"] = "examine" =>
                /\ ~Addressed(cm.commands[cm.idx], config.instance_id)
                /\ cm'.acks = cm.acks
          /\ cm'.acks # cm.acks /\ pc["cmd"] # "fetch" /\ pc["cmd"] # "idle" =>
                /\ pc["cmd"] = "sw_return"
                /\ cm'.acks = [cm.acks EXCEPT ![cm.idx] = 1]]_vars

\* C27 happens: the first command of a batch of two was run and
\* acknowledged, and the second is under examination.
C27_Witness ==
    /\ pc["cmd"] = "examine"
    /\ Len(cm.commands) = 2
    /\ cm.idx = 2
    /\ cm.acks[1] = 1

\* A tick of the price probe that goes back to its wait from the fetch of the
\* pool samples, without a pricing report.
SpTickWithoutReport == SpPrices /\ pc'["spot"] = "idle"

\* C28: every tick of the price probe publishes a pricing report, also when
\* the fetched list of pool samples is empty: the probe has no tick that
\* ends without one.
C28_EveryTickReports ==
    pc["spot"] = "idle" /\ ~stop_event => ~ENABLED SpTickWithoutReport

\* C29: a heartbeat tick whose heartbeat and get_config both succeeded
\* leaves every flag of the answer at the controller's value and every flag
\* the answer does not hold as it was; once the heartbeat task runs, the
\* flags change in the writes of such a tick and nowhere else, so a tick
\* whose heartbeat or get_config failed changes none.
C29_FlagsRefreshedFromController ==
    /\ [][pc["hb"] = "idle" /\ pc'["hb"] = "set_enabled" =>
             \E returned \in ReturnedKeySets \ {{}} :
                \A key \in FlagNames :
                   hb'.cfg[key] = IF key \in returned THEN ctl.flags[key]
                                  ELSE ConfigFlags[key]]_vars
    /\ [][pc["hb"] = "set_auto" /\ pc'["hb"] = "idle" =>
             ConfigFlags' = hb.cfg]_vars
    /\ [][pc["hb"] = "idle" => ConfigFlags' = ConfigFlags]_vars

\* C29 happens: the operator changed the flags after the agent had
\* registered, and a heartbeat tick has brought the agent's flags to the
\* controller's.
C29_Witness ==
    /\ pc["hb"] = "idle"
    /\ hb = HbIdle
    /\ ctl.changes = 1
    /\ ConfigFlags = ctl.flags
    /\ ~stop_event

\* C30: the tags of every launch request name each key once, and the parent
\* tag names the predecessor of the migration, also when the predecessor was
\* itself launched by the agent and carries the operator tags of the
\* migration before.
C30_OperatorTagsMerged ==
    \A c \in Callers :
       sw[c].launch_params # Unsent =>
          LET tags == sw[c].launch_params[1].Tags
          IN /\ DistinctKeys(tags)
             /\ \A i \in DOMAIN tags :
                   tags[i].Key = "spot-optimizer-parent" =>
                      tags[i].Value = sw[c].old_instance_id

\* Task t has ended, or was never started.
Ended(t) == pc[t] \in {"unstarted", "exited", "killed"}

C32_MigrationNotCutShort ==
    [][\A c \in Callers : Running(c) => pc'[c] # "killed"]_vars

\* A pricing report is being sent by a probe tick that began after a
\* migration had returned success.
TickAfterDone == pc["spot"] = "report" /\ sp.retired # {}

\* The lease class of the instance a pricing report names.
ReportedInstanceMode ==
    get_current_mode(get_instance_details(InstanceData.instance_id))[1]

\* C33 as stated: the pricing report of every probe tick that began after
\* DONE carries the successor's id and the successor's lease class.
C33_TickAfterDoneReportsSuccessor ==
    TickAfterDone =>
       /\ InstanceData.instance_id \notin sp.retired
       /\ InstanceData.current_mode = ReportedInstanceMode

\* C33 amended: the pricing report of every probe tick that began after DONE
\* names the successor and carries the successor's lease class, or 'unknown'
\* when the describe of that tick failed; so a report that names the
\* predecessor or carries its lease class comes from the one tick that was
\* under way at DONE.
C33_TickAfterDoneSelfCorrects ==
    /\ TickAfterDone =>
          /\ InstanceData.instance_id \notin sp.retired
          /\ InstanceData.instance_id = config.instance_id
          /\ ec2.instances[InstanceData.instance_id].parent \in sp.retired
          /\ InstanceData.current_mode \in {ReportedInstanceMode, "unknown"}
    /\ (/\ pc["spot"] = "report"
        /\ \/ InstanceData.instance_id \in obs.retired
           \/ InstanceData.current_mode \notin {ReportedInstanceMode, "unknown"})
          => sp.retired = {}

\* C33 happens: a migration from a fixed to a reclaimable lease has returned
\* and a later probe tick reports the successor as reclaimable.
C33_Witness ==
    /\ TickAfterDone
    /\ InstanceData.current_mode = "spot"
    /\ \E i \in sp.retired : ec2.instances[i].lifecycle = "normal"

NodeIdentity ==
    [instance_id |-> config.instance_id,
     instance_type |-> config.instance_type,
     availability_zone |-> config.availability_zone,
     lease_class |-> current_mode,
     pool_id |-> current_pool_id]

\* The steps of execute_switch that come before the identity update of
\* 917-921, and the finally clause after it.
OutsideDone ==
    {"sw_describe", "sw_snapshot", "sw_launch", "sw_wait_running", "sw_verify",
     "sw_prices", "sw_terminate", "sw_terminate_ret", "sw_report",
     "sw_finally"}

Aborted(c) ==
    /\ pc[c] \in {"sw_finally", "sw_return"}
    /\ sw[c].aborted_at \in {"DESCRIBE", "SNAPSHOT", "LAUNCH", "VERIFY"}

\* C35: no step of a migration outside the identity update writes
\* instance_id, instance_type, zone, lease_class or pool_id, and a migration
\* that aborted at DESCRIBE, SNAPSHOT, LAUNCH or VERIFY has the instance_id,
\* lease_class and pool_id it read when it started (765-767).
C35_AbortLeavesIdentity ==
    /\ [][\A c \in Callers :
             (pc[c] \in OutsideDone /\ pc'[c] # pc[c]) =>
                NodeIdentity' = NodeIdentity]_vars
    /\ [](\A c \in Callers :
             Aborted(c) =>
                /\ config.instance_id = sw[c].old_instance_id
                /\ current_mode = sw[c].old_mode
                /\ current_pool_id = sw[c].old_pool_id)

\* C35 happens: a migration aborted at VERIFY, its successor launched.
C35_Witness ==
    /\ Aborted("cmd")
    /\ sw["cmd"].aborted_at = "VERIFY"
    /\ sw["cmd"].new_instance_id # sw["cmd"].old_instance_id
    /\ pc["cmd"] = "sw_return"

\* C36: in every state in which the command drain calls execute_switch
\* (736), enabled and auto_switch_enabled are both true.
C36_NoMigrationWhileDisabled ==
    [][(pc["cmd"] = "examine" /\ pc'["cmd"] = "sw_lock") =>
          (config.enabled /\ config.auto_switch_enabled)]_vars

\* C37: the command drain never calls execute_switch (736) in a state in
\* which stop_event is set.
C37_NoMigrationAfterStop ==
    [][(pc["cmd"] = "examine" /\ pc'["cmd"] = "sw_lock") => ~stop_event]_vars

\* C38: every call addressed to /api/agents/<agent_id> is sent with the
\* agent_id registration stored: the offline heartbeat of shutdown (978), and
\* every step of a periodic task, which are the only other senders.
C38_NoCallBeforeRegistration ==
    [][/\ (pc["main"] = "shutdown" /\ pc'["main"] = "shutdown_set") =>
             Heartbeat("offline", {}).agent_id # 0
       /\ \A t \in PeriodicTasks :
             (pc[t] # "unstarted" /\ pc'[t] # pc[t]) => config.agent_id # 0]_vars

\* C39: when execute_switch has returned success, the agent's lease class
\* is 'spot' or 'ondemand', and so is the new mode of the record it sent.
C39_SuccessNeverUnknown ==
    \A c \in Callers :
       ReturnedSuccess(c) =>
          /\ current_mode \in {"spot", "ondemand"}
          /\ MigrationRecord(c).new_mode \in {"spot", "ondemand"}

\* C40: no command drives the engine twice.  The controller of this
\* specification issues one command over the agent's lifetime and the command
\* drain is the engine's only caller, so an image other than the one the
\* instance was started from that exists when the drain calls execute_switch
\* (736) was created by an earlier run of the engine for the same command.
C40_CommandDrivesEngineOnce ==
    (pc["cmd"] = "sw_lock" /\ ctl.issued = 1) =>
       ec2.images = {config.ami_id}

====
